---- MODULE Spec2Model ----
(***************************************************************************)
(* Model of mpi4py_fft/utilities/nc_file.py: class NCFile, the parallel   *)
(* NetCDF4 snapshot writer.  One Python process per MPI worker runs the   *)
(* same program (construct a writer, then write/read calls) against one   *)
(* shared file.  Calls on the file that the library performs collectively *)
(* (createDimension, createVariable, writes to a variable in collective   *)
(* access mode, sync) complete only when every worker has issued the same *)
(* call; a worker inside such a call waits for the others.                *)
(*                                                                         *)
(* The writer is modelled for mode = 'w' (the only mode in which __init__ *)
(* creates nc_t, dims and handles, lines 56-76).                           *)
(***************************************************************************)
EXTENDS Integers, Sequences, FiniteSets, TLC

\* ------------------------------------------------------------------ bounds
MaxCalls == 2
MaxExtent == 8

\* the workers (MPI ranks, numbered from 1), and their number
Workers == {1, 2}
NW == Cardinality(Workers)

\* step values handed to write(): repeated, decreasing, non-contiguous, and
\* one beyond the integers a 32-bit float holds exactly
Steps == {0, 16777217}

\* ------------------------------------------------------- generic helpers
Range(f) == {f[x] : x \in DOMAIN f}

Max(a, b) == IF a >= b THEN a ELSE b

IsPrefix(s, t) == Len(s) <= Len(t) /\ SubSeq(t, 1, Len(s)) = s

\* all sequences of length n over the set S
RECURSIVE SeqsOfLen(_, _)
SeqsOfLen(S, n) ==
    IF n = 0 THEN {<<>>}
    ELSE {Append(q, x) : q \in SeqsOfLen(S, n - 1), x \in S}

\* the subsequence of q at the positions listed in pos (numpy.take)
Take(q, pos) == [j \in 1..Len(pos) |-> q[pos[j]]]

\* positions (1-based, ascending) of the TRUE entries of q (numpy.nonzero)
RECURSIVE NonZero(_, _)
NonZero(q, i) ==
    IF i > Len(q) THEN <<>>
    ELSE (IF q[i] THEN <<i>> ELSE <<>>) \o NonZero(q, i + 1)

\* ------------------------------------------------- Python values modelled
\* slice(None) is the empty tuple, an integer index k is <<k>>
SliceNone == <<>>
Fixed(k) == <<k>>
IsSlice(x) == Len(x) = 0

\* a Python slice(start, stop) of a local index range
Rng(a, b) == [start |-> a, stop |-> b]

NoErr == ""

\* numpy dtype.char of the three floating kinds, and the significand widths
\* that decide which integers a value of the kind holds exactly
RECURSIVE Ulp(_, _)
Ulp(n, u) == IF n \div u < 16777216 THEN u ELSE Ulp(n, 2 * u)

\* an integer stored in a float32: rounded to 24 significant bits, ties to even
Float32(n) ==
    LET a == IF n < 0 THEN 0 - n ELSE n
        u == Ulp(a, 1)
        q == a \div u
        r == a % u
        up == (2 * r > u) \/ (2 * r = u /\ q % 2 = 1)
        m == (IF up THEN q + 1 ELSE q) * u
    IN IF n < 0 THEN 0 - m ELSE m

\* the value a variable of type dtype holds after `var[i] = n` with n an int;
\* 'd' and 'g' hold every integer of the model's range exactly
ToDType(dtype, n) == IF dtype = "f" THEN Float32(n) ELSE n

\* ------------------------------------------- the decomposition object T
\* T (a PFFT instance) is supplied by the caller and only read: its global
\* shape T.shape(False), its dimensionality T.ndim(), the type T.dtype(False)
\* and, per worker, the local index ranges T.local_slice(False).  The model
\* uses slab decompositions: axis 0 is split one row per worker, the other
\* axes are whole on every worker.
Decomp(N, c) == [N |-> N, dtype |-> c]

ndim(T) == Len(T.N)

local_slice(T, w) ==
    [i \in 1..Len(T.N) |-> IF i = 1 THEN Rng(w - 1, w) ELSE Rng(0, T.N[i])]

\* decompositions a writer is constructed and used with
Decomps == {Decomp(<<NW, 2>>, "f"), Decomp(<<NW, 1, 2>>, "d"), Decomp(<<NW>>, "f")}

\* decompositions for construction alone: also a complex type char
CtorDecomps == Decomps \cup {Decomp(<<NW, 2>>, "D"), Decomp(<<NW, 2>>, "g")}

\* ------------------------------------------------------------ the domain
\* domain is a sequence with, per entry, either a 2-tuple (origin, length)
\* or an array of coordinates; lens[i] is len(domain[i])
Domain(kind, lens) == [kind |-> kind, lens |-> lens]

\* the domain that matches T: one 2-tuple per axis
TupleDomain(T) == Domain("tuple", [i \in 1..ndim(T) |-> 2])

\* domains handed to the constructor: 2-tuples or coordinate arrays, with
\* fewer, as many or more entries than T has axes, arrays with the axis
\* extent or one more element, and a first tuple that is not a pair
Domains(T) ==
    LET lengths == {n \in (ndim(T) - 1)..(ndim(T) + 1) : n >= 1}
        N(i) == IF i <= ndim(T) THEN T.N[i] ELSE 2
    IN  {Domain("tuple", [i \in 1..n |-> 2]) : n \in lengths}
        \cup {Domain("tuple", [i \in 1..ndim(T) |-> 3])}
        \cup {Domain("array", [i \in 1..n |-> N(i)]) : n \in lengths}
        \cup {Domain("array", [i \in 1..ndim(T) |-> IF i = 1 THEN N(i) + 1 ELSE N(i)])}

\* np.arange(n)*2*np.pi/n, in units of 2*pi/n
Grid(n) == [j \in 1..n |-> j - 1]

\* a caller's coordinate array of n elements (values in the same units, offset
\* so that they differ from the synthesized grid)
Coords(n) == [j \in 1..n |-> 100 + j]

\* ----------------------------------------------------------- the file
\* a dimension of the file
Dim(name, size, unlimited) == [name |-> name, size |-> size, unlimited |-> unlimited]

\* data of a variable: a function from index tuples to values, defined
\* where an element has been written (elsewhere the file holds fill values)
EmptyData == [x \in {} |-> 0]

Var(dimensions, data, attr) == [dims |-> dimensions, data |-> data, attr |-> attr]

\* one collective call on the file, as logged per worker
Call(op, name, dimensions) == [op |-> op, name |-> name, dims |-> dimensions]

SyncCall == Call("sync", "", <<>>)

\* Dataset.createDimension: registers the dimension once
createDimension(fd, name, size) ==
    IF \E i \in 1..Len(fd) : fd[i].name = name THEN fd
    ELSE Append(fd, Dim(name, IF size < 0 THEN 0 ELSE size, size < 0))

\* Dataset.createVariable: the variable is created by the collective call
\* of all workers once; the attribute is the one set right after creation
createVariable(fv, name, dimensions, attr) ==
    IF name \in DOMAIN fv THEN fv
    ELSE (name :> Var(dimensions, EmptyData, attr)) @@ fv

\* ------------------------------------------------------ NCFile.__init__
XYZ == <<"x", "y", "z">>

CtorState(e, dimensions, ops, fd, fv) ==
    [err |-> e, dims |-> dimensions, ops |-> ops, fdims |-> fd, fvars |-> fv]

\* lines 62-66: d = list(domain), replaced by the uniform grid when the
\* first entry is no array
RECURSIVE GridLoop(_, _, _, _)
GridLoop(T, domain, i, d) ==
    IF i > Len(domain.lens) THEN [err |-> NoErr, d |-> d]
    ELSE IF i > ndim(T) THEN [err |-> "IndexError", d |-> d]
    ELSE GridLoop(T, domain, i + 1, [d EXCEPT ![i] = Grid(T.N[i])])

CtorCoords(T, domain) ==
    LET d == [i \in 1..Len(domain.lens) |-> Coords(domain.lens[i])]
    IN  IF Len(domain.lens) = 0 THEN [err |-> "IndexError", d |-> d]
        ELSE IF domain.kind = "array" THEN [err |-> NoErr, d |-> d]
        ELSE IF domain.lens[1] # 2 THEN [err |-> "AssertionError", d |-> d]
        ELSE GridLoop(T, domain, 1, d)

\* lines 68-73: one dimension and one coordinate variable per entry of d
RECURSIVE CtorLoop(_, _, _, _)
CtorLoop(T, d, i, st) ==
    IF i > Len(d) THEN st
    ELSE IF i > Len(XYZ) THEN [st EXCEPT !.err = "KeyError"]
    ELSE IF i > ndim(T) THEN [st EXCEPT !.err = "IndexError"]
    ELSE
      LET xyz == XYZ[i]
          fd == createDimension(st.fdims, xyz, T.N[i])
          fv == createVariable(st.fvars, xyz, <<xyz>>, <<>>)
          ops == st.ops \o <<Call("createDimension", xyz, <<>>),
                             Call("createVariable", xyz, <<xyz>>)>>
          dimensions == Append(st.dims, xyz)
          \* nc_xyz[:] = d[i]: the array must have the extent of the axis
          fits == Len(d[i]) = T.N[i]
          written == [fv EXCEPT ![xyz].data = [ix \in {<<j - 1>> : j \in 1..Len(d[i])} |-> d[i][ix[1] + 1]]]
      IN  IF fits THEN CtorLoop(T, d, i + 1, CtorState(NoErr, dimensions, ops, fd, written))
          ELSE CtorState("ValueError", dimensions, ops, fd, fv)

\* (a constructor that accepts every numeric type)
CheckDType_any(T) == TRUE

\* lines 48-76 on one worker, from the file as it is (fd, fv): the
\* exception raised (NoErr if none), self.dims, the collective calls issued
\* in order, and the file afterwards
CheckDType(T) == T.dtype \in {"f", "d", "g"}

NCFileInit(T, domain, fd, fv) ==
    IF ~CheckDType(T) THEN CtorState("AssertionError", <<>>, <<>>, fd, fv)
    ELSE
      LET fd1 == createDimension(fd, "time", -1)
          fv1 == createVariable(fv, "time", <<"time">>, <<>>)
          ops1 == <<Call("createDimension", "time", <<>>),
                    Call("createVariable", "time", <<"time">>)>>
          st1 == CtorState(NoErr, <<"time">>, ops1, fd1, fv1)
          c == CtorCoords(T, domain)
          st2 == IF c.err # NoErr THEN [st1 EXCEPT !.err = c.err]
                 ELSE CtorLoop(T, c.d, 1, st1)
      IN  IF st2.err # NoErr THEN st2
          ELSE [st2 EXCEPT !.ops = Append(@, SyncCall)]

\* ------------------------------------------------------- index tuples
\* the index tuples of a box given by one range per axis
RECURSIVE Box(_)
Box(ranges) ==
    IF Len(ranges) = 0 THEN {<<>>}
    ELSE LET n == Len(ranges)
             last == ranges[n]
         IN  {Append(g, k) : g \in Box(SubSeq(ranges, 1, n - 1)),
                             k \in last.start..(last.stop - 1)}

\* row-major position of the global index tuple g in an array of shape N
RECURSIVE Lin(_, _)
Lin(N, g) ==
    IF Len(g) = 0 THEN 0
    ELSE LET n == Len(g)
         IN  Lin(N, SubSeq(g, 1, n - 1)) * N[n] + g[n]

\* ------------------------------------------------- requests of a write
\* one entry of the fields mapping: a full local block (full = TRUE) or a
\* block with a global slice specification sl
FullBlock(name) == [name |-> name, full |-> TRUE, sl |-> <<>>]
SlicedBlock(name, sl) == [name |-> name, full |-> FALSE, sl |-> sl]

Request(step, fields) == [step |-> step, fields |-> fields]

\* slice specifications over the axes of T: per axis a fixed index or the
\* whole axis
AllSliceSpecs(T) == SeqsOfLen({SliceNone} \cup {Fixed(k) : k \in {0, 1}}, ndim(T))

\* the specifications that fix exactly one axis, at index k
OneAxisSpecs(T, k) ==
    {[i \in 1..ndim(T) |-> IF i = a THEN Fixed(k) ELSE SliceNone] : a \in 1..ndim(T)}

\* the specifications used in write calls: no axis fixed, one axis fixed (at
\* index 0 or, on a 2-D array, 1), all axes fixed at index 0
SliceSpecs(T) ==
    {sl \in AllSliceSpecs(T) :
        \/ sl \in OneAxisSpecs(T, 0)
        \/ ndim(T) = 2 /\ sl \in OneAxisSpecs(T, 1)
        \/ \A i \in 1..ndim(T) : sl[i] = Fixed(0)
        \/ \A i \in 1..ndim(T) : sl[i] = SliceNone}

\* field mappings handed to write(): none, one field "u" (full or sliced),
\* a full field under a second name, or two fields in one call
SecondName == "u_0_slice"

FieldLists(T) ==
    LET one == {FullBlock("u")} \cup {SlicedBlock("u", sl) : sl \in SliceSpecs(T)}
        first == {FullBlock("u"), SlicedBlock("u", [i \in 1..ndim(T) |-> IF i = 1 THEN Fixed(0) ELSE SliceNone])}
    IN  {<<>>} \cup {<<f>> : f \in one} \cup {<<FullBlock(SecondName)>>}
        \cup {<<f, FullBlock(SecondName)>> : f \in first}

\* the calls made: every field mapping with step 0, and the calls without
\* fields or with the one full field "u" with every step value
Requests(T) ==
    {Request(0, fields) : fields \in FieldLists(T)}
        \cup {Request(step, fields) : step \in Steps, fields \in {<<>>, <<FullBlock("u")>>}}

\* the local block worker w passes as field number j of write call number k:
\* a function of the local index tuple (0-based per axis); every element of
\* every block of every call is a different value
LocalBlock(T, w, k, j) ==
    LET s == local_slice(T, w)
        shape == [i \in 1..Len(s) |-> Rng(0, s[i].stop - s[i].start)]
    IN  [l \in Box(shape) |->
            1000 * k + 100 * j + Lin(T.N, [i \in 1..Len(s) |-> s[i].start + l[i]])]

\* -------------------------------------------- FileBase (slice mapping)
\* FileBase._get_slice_name: per axis the literal fixed index or the marker
\* "slice", joined by "_"
RECURSIVE JoinNames(_, _)
JoinNames(parts, sep) ==
    IF Len(parts) = 0 THEN ""
    ELSE IF Len(parts) = 1 THEN parts[1]
    ELSE parts[1] \o sep \o JoinNames(Tail(parts), sep)

get_slice_name(slices) ==
    JoinNames([i \in 1..Len(slices) |->
                  IF IsSlice(slices[i]) THEN "slice" ELSE ToString(slices[i][1])], "_")

\* whether the fixed index k lies in the local range r
InRange(k, r) == r.start <= k /\ k < r.stop

\* FileBase._get_local_slices: a fixed index inside the local range becomes
\* the local offset, inside is true iff every fixed index is in range
get_local_slices(slices, s) ==
    [slices |-> [i \in 1..Len(slices) |->
                    IF ~IsSlice(slices[i]) /\ InRange(slices[i][1], s[i])
                    THEN Fixed(slices[i][1] - s[i].start)
                    ELSE slices[i]],
     inside |-> \A i \in 1..Len(slices) :
                    IsSlice(slices[i]) \/ InRange(slices[i][1], s[i])]

\* (a mapping that takes every local range to start at 0)
LocalPlan_nostart(slices, s) ==
    LET z == [i \in 1..Len(s) |-> Rng(0, s[i].stop)]
        loc == get_local_slices(slices, z)
        sp == NonZero([i \in 1..Len(loc.slices) |-> IsSlice(loc.slices[i])], 1)
    IN  [slices |-> loc.slices, inside |-> loc.inside, sp |-> sp, sf |-> Take(s, sp)]

\* lines 137-139 for the local ranges s: the localized specification, the
\* inside flag, the positions sp of the ranged axes and their local ranges sf
LocalPlan(slices, s) ==
    LET loc == get_local_slices(slices, s)
        sp == NonZero([i \in 1..Len(loc.slices) |-> IsSlice(loc.slices[i])], 1)
    IN  [slices |-> loc.slices, inside |-> loc.inside, sp |-> sp, sf |-> Take(s, sp)]

\* lines 135-139 on worker w
SliceLocal(T, w, slices) == LocalPlan(slices, local_slice(T, w))

\* (a name built after line 137 has localized the specification)
slice_fname_local(T, w, name, slices) ==
    name \o "_" \o get_slice_name(get_local_slices(slices, local_slice(T, w)).slices)

\* (a name that tells which axes are fixed but not at which index)
slice_fname_axes(T, w, name, slices) ==
    name \o "_" \o get_slice_name([i \in 1..Len(slices) |->
                                      IF IsSlice(slices[i]) THEN SliceNone ELSE Fixed(0)])

\* lines 134 and 141: the variable name of a slice write, built from the
\* specification as the caller gave it (before line 137 localizes it)
slice_fname(T, w, name, slices) == name \o "_" \o get_slice_name(slices)

\* (a slice variable spanning every axis of the writer)
SlicePlan_alldims(T, w, dimensions, name, slices) ==
    LET loc == SliceLocal(T, w, slices)
    IN  [fname |-> slice_fname(T, w, name, slices),
         slices |-> loc.slices,
         inside |-> loc.inside,
         sp |-> loc.sp,
         sf |-> loc.sf,
         err |-> NoErr,
         sdims |-> dimensions]

\* lines 133-141: what _write_slice_step computes before it touches the file
SlicePlan(T, w, dimensions, name, slices) ==
    LET loc == SliceLocal(T, w, slices)
        sp == loc.sp
        ok == \A j \in 1..Len(sp) : sp[j] + 1 <= Len(dimensions)
    IN  [fname |-> slice_fname(T, w, name, slices),
         slices |-> loc.slices,
         inside |-> loc.inside,
         sp |-> sp,
         sf |-> loc.sf,
         err |-> IF ok THEN NoErr ELSE "IndexError",
         sdims |-> IF ok THEN <<"time">> \o Take(dimensions, [j \in 1..Len(sp) |-> sp[j] + 1])
                   ELSE <<>>]

\* ------------------------------------------------------------- state
VARIABLES
    T,        \* the decomposition object handed to the constructor
    domain,   \* the domain handed to the constructor
    pc,       \* per worker: where it is in the program
    dims,     \* per worker: self.dims
    handles,  \* per worker: self.handles, name -> axis list of the handle
    it,       \* per worker: the local `it` of the write call in progress
    fi,       \* per worker: number of the field of the call being handled
    ncall,    \* per worker: write calls started
    reqs,     \* the write requests of the program, in call order
    calls,    \* per worker: the collective calls it has issued, in order
    pend,     \* per worker: what its last collective call carries
    err,      \* per worker: exception raised by its last constructor/write
    fdims,    \* the file: its dimensions
    fvars,    \* the file: its variables
    rd,       \* the last read() and its outcome
    mapin,    \* a slice specification and local ranges handed to the slice mapping
    mapout    \* what the slice mapping made of them

vars == <<T, domain, pc, dims, handles, it, fi, ncall, reqs, calls, pend, err, fdims, fvars, rd, mapin, mapout>>

Payload(i, data, attr) == [it |-> i, data |-> data, attr |-> attr]
NoPayload == Payload(0, EmptyData, <<>>)

NoRead == [w |-> 0, dset |-> "", step |-> 0, err |-> NoErr, buf |-> EmptyData]

\* the current length of the unlimited time dimension (nc_t.size)
TimeSize(fd) == IF Len(fd) = 0 THEN 0 ELSE fd[1].size

\* --------------------------------------------------- collective calls
\* the effect on the file of one worker's part of a completed call
ApplyCall(file, call, p) ==
    IF call.op = "createVariable"
    THEN [file EXCEPT !.fvars = createVariable(@, call.name, call.dims, p.attr)]
    ELSE IF call.op = "write" /\ call.name \in DOMAIN file.fvars /\ DOMAIN p.data # {}
    THEN [fdims |-> [file.fdims EXCEPT ![1].size = Max(@, p.it + 1)],
          fvars |-> [file.fvars EXCEPT ![call.name].data = p.data @@ @]]
    ELSE file

RECURSIVE ApplyAll(_, _, _, _)
ApplyAll(file, call, P, v) ==
    IF v > NW THEN file
    ELSE ApplyAll(ApplyCall(file, call, P[v]), call, P, v + 1)

\* (calls that return at once, without the other workers)
Complete_nowait(w) == TRUE

\* worker w's last collective call has completed: every worker has issued
\* the same call at the same position of its sequence of calls
Complete(w) ==
    LET n == Len(calls[w])
    IN  \A v \in Workers : Len(calls[v]) >= n /\ (n > 0 => calls[v][n] = calls[w][n])

\* (a call whose part takes effect as soon as one worker has issued it)
Issue_eager(w, call, p) ==
    LET file == ApplyCall([fdims |-> fdims, fvars |-> fvars], call, p)
    IN  /\ calls' = [calls EXCEPT ![w] = Append(@, call)]
        /\ pend' = [pend EXCEPT ![w] = p]
        /\ fdims' = file.fdims
        /\ fvars' = file.fvars

\* worker w issues a collective call carrying p; the call takes effect on
\* the file when the last worker issues it
Issue(w, call, p) ==
    LET n == Len(calls[w]) + 1
        P == [pend EXCEPT ![w] = p]
        all == \A v \in Workers \ {w} : Len(calls[v]) >= n /\ calls[v][n] = call
        file == IF all THEN ApplyAll([fdims |-> fdims, fvars |-> fvars], call, P, 1)
                ELSE [fdims |-> fdims, fvars |-> fvars]
    IN  /\ calls' = [calls EXCEPT ![w] = Append(@, call)]
        /\ pend' = P
        /\ fdims' = file.fdims
        /\ fvars' = file.fvars

NoMap == [slices |-> <<>>, s |-> <<>>]

\* --------------------------------------------------------- the program
\* the program before the constructor runs, for a decomposition and a domain
Start(t, d) ==
    /\ T = t
    /\ domain = d
    /\ pc = [w \in Workers |-> "new"]
    /\ dims = [w \in Workers |-> <<>>]
    /\ handles = [w \in Workers |-> EmptyData]
    /\ it = [w \in Workers |-> 0]
    /\ fi = [w \in Workers |-> 0]
    /\ ncall = [w \in Workers |-> 0]
    /\ reqs = <<>>
    /\ calls = [w \in Workers |-> <<>>]
    /\ pend = [w \in Workers |-> NoPayload]
    /\ err = [w \in Workers |-> NoErr]
    /\ fdims = <<>>
    /\ fvars = EmptyData
    /\ rd = NoRead
    /\ mapin = NoMap
    /\ mapout = NoMap

Init == \E t \in Decomps : Start(t, TupleDomain(t))

\* NCFile.__init__ on worker w (lines 48-76)
NCFile__init__(w) ==
    /\ pc[w] = "new"
    /\ LET r == NCFileInit(T, domain, fdims, fvars)
       IN  /\ pc' = [pc EXCEPT ![w] = IF r.err = NoErr THEN "ready" ELSE "failed"]
           /\ err' = [err EXCEPT ![w] = r.err]
           /\ dims' = [dims EXCEPT ![w] = r.dims]
           /\ calls' = [calls EXCEPT ![w] = r.ops]
           /\ fdims' = r.fdims
           /\ fvars' = r.fvars
    /\ handles' = [handles EXCEPT ![w] = EmptyData]
    /\ rd' = NoRead
    /\ UNCHANGED <<mapin, mapout, T, domain, it, fi, ncall, reqs, pend>>

\* the request of the write call worker w is in
Req(w) == reqs[ncall[w]]
Field(w) == Req(w).fields[fi[w]]

\* (a writer that overwrites the last time entry instead of appending)
nc_t_size_last(w) == Max(TimeSize(fdims) - 1, 0)

\* the value nc_t.size gives worker w
nc_t_size(w) == TimeSize(fdims)

\* NCFile.write on worker w, lines 97-98: it = nc_t.size; nc_t[it] = step
write(w) ==
    /\ pc[w] = "ready"
    /\ \E req \in Requests(T) :
         /\ IF ncall[w] < Len(reqs)
            THEN req = reqs[ncall[w] + 1] /\ UNCHANGED reqs
            ELSE Len(reqs) < MaxCalls /\ reqs' = Append(reqs, req)
         /\ LET i == nc_t_size(w)
            IN  /\ it' = [it EXCEPT ![w] = i]
                /\ Issue(w, Call("write", "time", <<>>),
                         Payload(i, (<<i>> :> ToDType(T.dtype, req.step)), <<>>))
    /\ ncall' = [ncall EXCEPT ![w] = @ + 1]
    /\ fi' = [fi EXCEPT ![w] = 0]
    /\ pc' = [pc EXCEPT ![w] = "time"]
    /\ err' = [err EXCEPT ![w] = NoErr]
    /\ rd' = NoRead
    /\ UNCHANGED <<mapin, mapout, T, domain, dims, handles>>

\* FileBase.write on worker w (line 99): after the time entry, and after each
\* field, hand the next field of the mapping to its handler, or return
FileBase_write(w) ==
    /\ pc[w] \in {"time", "sync"}
    /\ Complete(w)
    /\ IF fi[w] < Len(Req(w).fields)
       THEN /\ fi' = [fi EXCEPT ![w] = @ + 1]
            /\ pc' = [pc EXCEPT ![w] = "enter"]
       ELSE /\ pc' = [pc EXCEPT ![w] = "ready"]
            /\ UNCHANGED fi
    /\ rd' = NoRead
    /\ UNCHANGED <<mapin, mapout, T, domain, dims, handles, it, ncall, reqs, calls, pend, err, fdims, fvars>>

\* an exception leaves the write call on worker w
Raise(w, e) ==
    /\ pc' = [pc EXCEPT ![w] = "ready"]
    /\ err' = [err EXCEPT ![w] = e]
    /\ UNCHANGED <<calls, pend, fdims, fvars>>

\* the library's element assignment var[selectors] = values needs one
\* selector per axis of the variable
Addressable(dimensions, nsel) == Len(dimensions) = nsel

\* (a writer that puts the block one step after the time entry of the call)
GroupData_next(s, u, i) ==
    [key \in {<<i + 1>> \o g : g \in Box(s)} |->
        u[[j \in 1..Len(s) |-> key[j + 1] - s[j].start]]]

\* (a writer that puts every block at the origin of the variable)
GroupData_origin(s, u, i) ==
    [key \in {<<i>> \o g : g \in Box([j \in 1..Len(s) |-> Rng(0, s[j].stop - s[j].start)])} |->
        u[[j \in 1..Len(s) |-> key[j + 1]]]]

\* line 125/127: handles[name][it, s[0], s[1](, s[2])] = u, as the elements
\* written: the block u at step i and at the worker's local ranges s
GroupData(s, u, i) ==
    [key \in {<<i>> \o g : g \in Box(s)} |->
        u[[j \in 1..Len(s) |-> key[j + 1] - s[j].start]]]

\* (a writer with a branch for every dimensionality)
GroupWrite_anyndim(w, name, h) ==
    LET s == local_slice(T, w)
        u == LocalBlock(T, w, ncall[w], fi[w])
    IN  /\ Issue(w, Call("write", name, <<>>), Payload(it[w], GroupData(s, u, it[w]), <<>>))
        /\ pc' = [pc EXCEPT ![w] = "data"]
        /\ UNCHANGED err

\* lines 124-129 on worker w, with h its handle for the name
GroupWrite(w, name, h) ==
    LET s == local_slice(T, w)
        u == LocalBlock(T, w, ncall[w], fi[w])
    IN  IF ndim(T) \notin {2, 3} THEN Raise(w, "NotImplementedError")
        ELSE IF ~Addressable(h, 1 + ndim(T)) THEN Raise(w, "IndexError")
        ELSE /\ Issue(w, Call("write", name, <<>>), Payload(it[w], GroupData(s, u, it[w]), <<>>))
             /\ pc' = [pc EXCEPT ![w] = "data"]
             /\ UNCHANGED err

\* (a writer that does not consult the cache)
GroupNeedsCreate_always(w, name) == TRUE

\* line 121: the handle has to be created
GroupNeedsCreate(w, name) == name \notin DOMAIN handles[w]

\* NCFile._write_group on worker w (lines 119-130), one step of it: up to
\* its next collective call
write_group(w) ==
    /\ pc[w] \in {"enter", "create", "data"}
    /\ Field(w).full
    /\ pc[w] # "enter" => Complete(w)
    /\ LET name == Field(w).name
       IN  \/ /\ pc[w] = "enter"
              /\ GroupNeedsCreate(w, name)
              /\ Issue(w, Call("createVariable", name, dims[w]), NoPayload)
              /\ pc' = [pc EXCEPT ![w] = "create"]
              /\ UNCHANGED <<handles, err>>
           \/ /\ pc[w] = "enter"
              /\ ~GroupNeedsCreate(w, name)
              /\ GroupWrite(w, name, handles[w][name])
              /\ UNCHANGED handles
           \/ /\ pc[w] = "create"
              /\ handles' = [handles EXCEPT ![w] = (name :> dims[w]) @@ @]
              /\ GroupWrite(w, name, dims[w])
           \/ /\ pc[w] = "data"
              /\ Issue(w, SyncCall, NoPayload)
              /\ pc' = [pc EXCEPT ![w] = "sync"]
              /\ UNCHANGED <<handles, err>>
    /\ rd' = NoRead
    /\ UNCHANGED <<mapin, mapout, T, domain, dims, it, fi, ncall, reqs>>

\* lines 151-155: handles[fname][it, sf...] = u[sl], as the elements written:
\* at step i and at the local ranges sf of the ranged axes sp, the elements
\* of u at the local offsets of the fixed axes
SliceData(s, plan, u, i) ==
    [key \in {<<i>> \o g : g \in Box(plan.sf)} |->
        u[[a \in 1..Len(s) |->
              IF IsSlice(plan.slices[a])
              THEN LET j == CHOOSE j \in 1..Len(plan.sp) : plan.sp[j] = a
                   IN  key[j + 1] - s[a].start
              ELSE plan.slices[a][1]]]]

\* line 149-155: this worker writes data in this slice step
SliceWrites(plan) == plan.inside /\ Len(plan.sf) \in {1, 2, 3}

\* (a writer that flushes only after it has written data)
SliceWrite_noflush(w, plan, h) ==
    LET s == local_slice(T, w)
        u == LocalBlock(T, w, ncall[w], fi[w])
    IN  IF plan.inside /\ Len(plan.sf) \in {1, 2, 3}
        THEN IF Len(h) # 1 + Len(plan.sf) THEN Raise(w, "IndexError")
             ELSE /\ Issue(w, Call("write", plan.fname, <<>>),
                           Payload(it[w], SliceData(s, plan, u, it[w]), <<>>))
                  /\ pc' = [pc EXCEPT ![w] = "data"]
                  /\ UNCHANGED err
        ELSE /\ pc' = [pc EXCEPT ![w] = "sync"]
             /\ UNCHANGED <<calls, pend, fdims, fvars, err>>

\* lines 148-157 on worker w, with h its handle for the name
SliceWrite(w, plan, h) ==
    LET s == local_slice(T, w)
        u == LocalBlock(T, w, ncall[w], fi[w])
    IN  IF SliceWrites(plan)
        THEN IF ~Addressable(h, 1 + Len(plan.sf)) THEN Raise(w, "IndexError")
             ELSE /\ Issue(w, Call("write", plan.fname, <<>>),
                           Payload(it[w], SliceData(s, plan, u, it[w]), <<>>))
                  /\ pc' = [pc EXCEPT ![w] = "data"]
                  /\ UNCHANGED err
        ELSE /\ Issue(w, SyncCall, NoPayload)
             /\ pc' = [pc EXCEPT ![w] = "sync"]
             /\ UNCHANGED err

\* (a writer that creates the variable only where the slice is)
SliceNeedsCreate_inside(w, plan) == plan.inside /\ plan.fname \notin DOMAIN handles[w]

\* line 143: the handle has to be created
SliceNeedsCreate(w, plan) == plan.fname \notin DOMAIN handles[w]

\* NCFile._write_slice_step on worker w (lines 132-157), one step of it: up
\* to its next collective call
write_slice_step(w) ==
    /\ pc[w] \in {"enter", "create", "data"}
    /\ ~Field(w).full
    /\ pc[w] # "enter" => Complete(w)
    /\ LET plan == SlicePlan(T, w, dims[w], Field(w).name, Field(w).sl)
       IN  \/ /\ pc[w] = "enter"
              /\ plan.err # NoErr
              /\ Raise(w, plan.err)
              /\ UNCHANGED handles
           \/ /\ pc[w] = "enter"
              /\ plan.err = NoErr
              /\ SliceNeedsCreate(w, plan)
              /\ Issue(w, Call("createVariable", plan.fname, plan.sdims),
                       Payload(it[w], EmptyData, plan.slices))
              /\ pc' = [pc EXCEPT ![w] = "create"]
              /\ UNCHANGED <<handles, err>>
           \/ /\ pc[w] = "enter"
              /\ plan.err = NoErr
              /\ ~SliceNeedsCreate(w, plan)
              /\ SliceWrite(w, plan, handles[w][plan.fname])
              /\ UNCHANGED handles
           \/ /\ pc[w] = "create"
              /\ handles' = [handles EXCEPT ![w] = (plan.fname :> plan.sdims) @@ @]
              /\ SliceWrite(w, plan, plan.sdims)
           \/ /\ pc[w] = "data"
              /\ Issue(w, SyncCall, NoPayload)
              /\ pc' = [pc EXCEPT ![w] = "sync"]
              /\ UNCHANGED <<handles, err>>
    /\ rd' = NoRead
    /\ UNCHANGED <<mapin, mapout, T, domain, dims, it, fi, ncall, reqs>>

\* names handed to read(): a field name and a name never written; the step
\* handed to read() by worker w: the step of its last write call
ReadNames == {"u", "p"}
ReadSteps(w) == IF ncall[w] = 0 THEN {0} ELSE {reqs[ncall[w]].step}

\* (a read that gives fill values for a name the file does not have)
ReadResult_fill(w, dset, step) == [err |-> NoErr, buf |-> EmptyData]

\* what self.f[dset][step, s[0], ...] gives worker w (lines 115-117)
ReadResult(w, dset, step) ==
    LET s == local_slice(T, w)
    IN  IF dset \notin DOMAIN fvars THEN [err |-> "IndexError", buf |-> EmptyData]
        ELSE IF ~Addressable(fvars[dset].dims, 1 + Len(s))
                \/ step >= TimeSize(fdims)
        THEN [err |-> "IndexError", buf |-> EmptyData]
        ELSE LET data == fvars[dset].data
                 shape == [i \in 1..Len(s) |-> Rng(0, s[i].stop - s[i].start)]
                 at(l) == <<step>> \o [i \in 1..Len(s) |-> s[i].start + l[i]]
             IN  [err |-> NoErr,
                  buf |-> [l \in {x \in Box(shape) : at(x) \in DOMAIN data} |-> data[at(l)]]]

\* NCFile.read on worker w (lines 101-117)
read(w) ==
    /\ pc[w] = "ready"
    /\ \E dset \in ReadNames, step \in ReadSteps(w) :
         LET r == ReadResult(w, dset, step)
         IN  rd' = [w |-> w, dset |-> dset, step |-> step, err |-> r.err, buf |-> r.buf]
    /\ UNCHANGED <<mapin, mapout, T, domain, pc, dims, handles, it, fi, ncall, reqs, calls, pend, err, fdims, fvars>>

Next ==
    \/ \E w \in Workers : NCFile__init__(w)
    \/ \E w \in Workers : write(w)
    \/ \E w \in Workers : FileBase_write(w)
    \/ \E w \in Workers : write_group(w)
    \/ \E w \in Workers : write_slice_step(w)
    \/ \E w \in Workers : read(w)

Spec == Init /\ [][Next]_vars

\* ------------------------------------------- the constructor on its own
\* every decomposition and domain of the input sets, and the constructor alone
CtorInit == \E t \in CtorDecomps : \E d \in Domains(t) : Start(t, d)

CtorNext == \E w \in Workers : NCFile__init__(w)

CtorSpec == CtorInit /\ [][CtorNext]_vars

\* ------------------------------------------- the slice mapping on its own
\* local ranges of one worker on a 2-D array of extents up to MaxExtent: any
\* range of rows, and the whole second axis
MapRanges ==
    LET rows == {r \in {Rng(a, b) : a \in 0..MaxExtent, b \in 0..MaxExtent} : r.start <= r.stop}
    IN  {<<r, Rng(0, e)>> : r \in rows, e \in 1..MaxExtent}

MapEntries == {SliceNone} \cup {Fixed(k) : k \in 0..MaxExtent}

MapInit ==
    /\ \E t \in {Decomp(<<NW, 2>>, "f")} : Start(t, TupleDomain(t))

\* lines 133-139 applied to a slice specification and local ranges
MapStep ==
    /\ mapout = NoMap
    /\ \E sl \in SeqsOfLen(MapEntries, 2), s \in MapRanges :
         /\ mapin' = [slices |-> sl, s |-> s]
         /\ mapout' = LocalPlan(sl, s)
    /\ UNCHANGED <<T, domain, pc, dims, handles, it, fi, ncall, reqs, calls, pend, err, fdims, fvars, rd>>

MapperSpec == MapInit /\ [][MapStep]_vars

\* =================================================================
\* Properties
\* =================================================================
\* worker w is inside a write call
InCall(w) == pc[w] \in {"time", "enter", "create", "data", "sync"}

\* every worker has returned from every write call of the program so far
Quiescent == \A w \in Workers : pc[w] = "ready" /\ ncall[w] = Len(reqs)

TimeData == fvars["time"].data

Abs(n) == IF n < 0 THEN 0 - n ELSE n

\* the step value is one the writer's numeric type holds exactly
Exact(dtype, step) == dtype # "f" \/ Abs(step) <= 16777216

\* the collective calls of worker w that satisfy the test
CallsOf(w, op, name) ==
    {n \in 1..Len(calls[w]) : calls[w][n].op = op /\ calls[w][n].name = name}

\* ----------------------------------------------------------------- C1
C1_TimeAxis ==
    "time" \in DOMAIN fvars =>
      LET n == TimeSize(fdims)
      IN  /\ DOMAIN TimeData = {<<i>> : i \in 0..(n - 1)}
          /\ n <= Len(reqs)
          /\ \A i \in 1..n : TimeData[<<i - 1>>] = ToDType(T.dtype, reqs[i].step)
          /\ \A i \in 1..n : Exact(T.dtype, reqs[i].step) => TimeData[<<i - 1>>] = reqs[i].step
          /\ \A w \in Workers : InCall(w) => it[w] = ncall[w] - 1 /\ n >= it[w]
          /\ \A w \in Workers : pc[w] = "ready" => n >= ncall[w]
          /\ Quiescent => n = Len(reqs)

C1_Growth ==
    /\ TimeSize(fdims') \in {TimeSize(fdims), TimeSize(fdims) + 1}
    /\ "time" \in DOMAIN fvars =>
         \A key \in DOMAIN TimeData : key \in DOMAIN fvars'["time"].data
                                      /\ fvars'["time"].data[key] = TimeData[key]
    /\ \A w \in Workers : pc[w] = "ready" /\ pc'[w] = "time" => it'[w] = TimeSize(fdims)

\* C1 (as amended): after N write calls the time axis has length exactly N and
\* its entry at index i-1 is step_i as the writer's numeric type holds it (step_i
\* itself when the type holds it exactly), whatever the order of the step
\* values; the index a call writes is the length of the time axis before the
\* call, the length grows by at most one per step of the program, never
\* decreases, and no entry once written is written again.
C1_TimeAxisInCallOrder == []C1_TimeAxis /\ [][C1_Growth]_vars

\* two or more calls made, with repeated or decreasing step values
C1_Witness ==
    /\ Quiescent
    /\ Len(reqs) >= 2
    /\ reqs[1].step >= reqs[2].step
    /\ TimeSize(fdims) = Len(reqs)

\* C1 as stated: the entry at index i-1 is the value passed to the i-th call
C1_Original ==
    Quiescent /\ "time" \in DOMAIN fvars =>
        /\ TimeSize(fdims) = Len(reqs)
        /\ \A i \in 1..Len(reqs) : TimeData[<<i - 1>>] = reqs[i].step

\* ----------------------------------------------------------------- C2
\* the last write call of worker w carried field number j, a full block named
\* name, and returned without raising
WroteFull(w, name, j) ==
    /\ pc[w] = "ready"
    /\ ncall[w] > 0
    /\ err[w] = NoErr
    /\ j \in 1..Len(Req(w).fields)
    /\ Req(w).fields[j] = FullBlock(name)

\* C2 as stated: reading a field back at the step value it was written with
\* gives the block that was written, whatever was written before
C2_RoundTrip ==
    \A w \in Workers : \A j \in 1..2 :
        (rd.w = w /\ WroteFull(w, rd.dset, j) /\ rd.step = Req(w).step)
            => rd.err = NoErr /\ rd.buf = LocalBlock(T, w, ncall[w], j)

\* ----------------------------------------------------------------- C3
\* names of the variables a worker may create in write calls
IsFieldVar(name) == name \notin {"time", "x", "y", "z"}

C3_OneCreate ==
    \A w \in Workers :
        /\ \A name \in {calls[w][n].name : n \in 1..Len(calls[w])} :
              IsFieldVar(name) /\ name # "" =>
                /\ Cardinality(CallsOf(w, "createVariable", name)) = 1
                /\ \A n \in CallsOf(w, "write", name) :
                      \E c \in CallsOf(w, "createVariable", name) : c < n
        /\ \A name \in DOMAIN handles[w] :
              /\ Cardinality(CallsOf(w, "createVariable", name)) = 1
              /\ \A c \in CallsOf(w, "createVariable", name) : calls[w][c].dims = handles[w][name]

C3_HandleKept ==
    /\ \A w \in Workers : \A name \in DOMAIN handles[w] :
          pc[w] # "new" =>
            name \in DOMAIN handles'[w] /\ handles'[w][name] = handles[w][name]
    /\ \A name \in DOMAIN fvars :
          name \in DOMAIN fvars' /\ fvars'[name].dims = fvars[name].dims

\* C3: each variable name is created by exactly one createVariable call per
\* worker, issued before the worker's first data write to it; later writes
\* under the name reuse the cached handle, and the axis list of a handle and of
\* the variable in the file never changes.
C3_CreatedOnce == []C3_OneCreate /\ [][C3_HandleKept]_vars

\* a worker has written data under one name in two write calls
C3_Witness ==
    \E w \in Workers :
        /\ Cardinality(CallsOf(w, "write", "u")) = 2
        /\ Cardinality(CallsOf(w, "createVariable", "u")) = 1

\* ------------------------------------------------- slice steps in progress
\* worker w is in _write_slice_step
SliceField(w) == pc[w] \in {"enter", "create", "data", "sync"} /\ ~Field(w).full

PlanOf(w) == SlicePlan(T, w, dims[w], Field(w).name, Field(w).sl)

\* worker w is in a slice step whose slice it does not hold
Outside(w) == SliceField(w) /\ ~PlanOf(w).inside

LastCall(w) == calls[w][Len(calls[w])]

\* ----------------------------------------------------------------- C4
C4_OutsideState ==
    \A w \in Workers : Outside(w) =>
        /\ pc[w] # "data"
        /\ pc[w] \in {"create", "sync"} =>
              CallsOf(w, "createVariable", PlanOf(w).fname) # {}
        /\ pc[w] = "create" => LastCall(w) = Call("createVariable", PlanOf(w).fname, PlanOf(w).sdims)
        /\ pc[w] = "sync" => LastCall(w) = SyncCall

C4_OutsideStep ==
    \A w \in Workers : (pc'[w] # pc[w] /\ Outside(w)) =>
        LET fname == PlanOf(w).fname
        IN  /\ Len(calls'[w]) > Len(calls[w]) =>
                  calls'[w][Len(calls'[w])] # Call("write", fname, <<>>)
            /\ (pc[w] = "enter" /\ fname \notin DOMAIN handles[w]) => pc'[w] = "create"
            /\ (pc[w] = "enter" /\ fname \in DOMAIN handles[w]) => pc'[w] = "sync"
            /\ pc[w] = "create" => pc'[w] = "sync"

\* C4: a worker whose local ranges do not contain a fixed index of the slice
\* specification issues no data write to the slice variable in that step; it
\* issues the createVariable call when the name is not in its cache, and it
\* issues the sync.
C4_OutsideCreatesAndFlushes == []C4_OutsideState /\ [][C4_OutsideStep]_vars

\* an outside worker has created the variable and gone on to the sync
C4_Witness ==
    \E w \in Workers :
        /\ Outside(w)
        /\ pc[w] = "sync"
        /\ calls[w][Len(calls[w]) - 1] = Call("createVariable", PlanOf(w).fname, PlanOf(w).sdims)

\* ----------------------------------------------------------------- C5
IsSchemaCall(c) == c.op \in {"createDimension", "createVariable"}

SchemaCalls(w) == SelectSeq(calls[w], IsSchemaCall)

\* two workers are at the same place of the program
SamePlace(w, v) == pc[w] = pc[v] /\ ncall[w] = ncall[v] /\ fi[w] = fi[v]

\* how far worker w is in the program: the write call, the field of the call
\* and the collective call of the field's handler that it has issued
Stage(w) ==
    CASE pc[w] = "enter" -> 1
      [] pc[w] = "create" -> 2
      [] pc[w] = "data" -> 3
      [] pc[w] = "sync" -> 4
      [] OTHER -> 0

Place(w) ==
    IF pc[w] \in {"new", "failed"} THEN <<0, 0, 0>>
    ELSE IF pc[w] = "ready" THEN <<ncall[w] + 1, 0, 0>>
    ELSE <<ncall[w], fi[w], Stage(w)>>

\* worker w is not further in the program than worker v
NotAhead(w, v) ==
    LET a == Place(w)
        b == Place(v)
    IN  \/ a[1] < b[1]
        \/ a[1] = b[1] /\ a[2] < b[2]
        \/ a[1] = b[1] /\ a[2] = b[2] /\ a[3] <= b[3]

\* C5: the workers issue the same collective schema calls (createDimension,
\* createVariable with the same name and axis list) in the same order and the
\* same number of times: the sequence of a worker that is not further in the
\* program than another is a prefix of the other's, so the sequences are
\* equal when the two are at the same place of the program, whatever their
\* local ranges and inside flags.
C5_SameSchemaCalls ==
    \A w, v \in Workers :
        /\ NotAhead(w, v) => IsPrefix(SchemaCalls(w), SchemaCalls(v))
        /\ SamePlace(w, v) => SchemaCalls(w) = SchemaCalls(v)

\* two workers with different inside flags are past the creation of a slice
\* variable that the step created
C5_Witness ==
    \E w, v \in Workers :
        /\ SliceField(w) /\ SliceField(v)
        /\ ncall[w] = ncall[v] /\ fi[w] = fi[v]
        /\ PlanOf(w).inside /\ ~PlanOf(v).inside
        /\ pc[w] = "data" /\ pc[v] = "sync"
        /\ calls[v][Len(calls[v]) - 1].op = "createVariable"

\* ----------------------------------------------------------------- C6
\* C6 as stated: in a slice write no worker is left in a collective call that
\* another worker has answered with a different call (so that neither call
\* can complete)
C6_SliceWriteCompletes ==
    \A w \in Workers :
        (SliceField(w) /\ pc[w] \in {"data", "sync"}) =>
            \A v \in Workers :
                Len(calls[v]) >= Len(calls[w]) => calls[v][Len(calls[w])] = LastCall(w)

\* ----------------------------------------------------------------- C7
\* the fields requested in the write calls worker w has started
Requested(w) == UNION {Range(reqs[k].fields) : k \in 1..ncall[w]}

\* the variable name of a requested field, from the specification as given
CanonicalName(f) ==
    IF f.full THEN f.name ELSE f.name \o "_" \o get_slice_name(f.sl)

\* C7: every name in a worker's cache is the name built from a requested
\* field and its global slice specification; workers at the same place of the
\* program hold the same names; in a slice step the variable a worker creates
\* and the variable it writes bear the name of the global specification, and
\* the worker then has the handle under that name.
C7_NameFromGlobalSpec ==
    /\ \A w \in Workers :
          (SliceField(w) /\ pc[w] \in {"create", "data"})
              => LastCall(w).name = CanonicalName(Field(w))
    /\ \A w \in Workers : \A name \in DOMAIN handles[w] :
          \E f \in Requested(w) : name = CanonicalName(f)
    /\ \A w, v \in Workers : SamePlace(w, v) => DOMAIN handles[w] = DOMAIN handles[v]
    /\ \A w \in Workers :
          (SliceField(w) /\ pc[w] \in {"data", "sync"})
              => CanonicalName(Field(w)) \in DOMAIN handles[w]

\* a worker whose local offset differs from the global index holds the handle
C7_Witness ==
    \E w \in Workers :
        /\ SliceField(w)
        /\ pc[w] = "data"
        /\ PlanOf(w).slices # Field(w).sl
        /\ CanonicalName(Field(w)) \in DOMAIN handles[w]

\* ----------------------------------------------------------------- C8
\* the sliced fields requested in the write calls made so far
SlicedRequested == {f \in UNION {Range(reqs[k].fields) : k \in 1..Len(reqs)} : ~f.full}

\* the name under which the writer files a sliced field
FiledUnder(f) == slice_fname(T, 1, f.name, f.sl)

\* C8: two slice specifications of one field that differ (in the axes they fix
\* or in an index) are filed under two different names, and the data a slice
\* variable holds at a step was written by the write call of that step, which
\* carried that field with that very specification (or a full field of that
\* name): no write of one specification lands in the variable of another.
C8_DistinctSliceVariables ==
    /\ \A f, g \in SlicedRequested :
          (f.name = g.name /\ f.sl # g.sl) => FiledUnder(f) # FiledUnder(g)
    /\ \A f \in SlicedRequested :
          FiledUnder(f) \in DOMAIN fvars =>
            \A key \in DOMAIN fvars[FiledUnder(f)].data :
                \E h \in Range(reqs[key[1] + 1].fields) :
                    h = f \/ h = FullBlock(FiledUnder(f))

\* two different specifications of one field have both written their variable
C8_Witness ==
    \E f, g \in SlicedRequested :
        /\ f.name = g.name /\ f.sl # g.sl
        /\ FiledUnder(f) \in DOMAIN fvars /\ FiledUnder(g) \in DOMAIN fvars
        /\ DOMAIN fvars[FiledUnder(f)].data # {}
        /\ DOMAIN fvars[FiledUnder(g)].data # {}

\* ----------------------------------------------------------------- C9
\* C9: the slice mapping returns inside = TRUE iff every fixed index k on
\* axis i has start[i] <= k < stop[i]; such an axis gets the local selector
\* k - start[i]; a whole-axis entry stays the whole axis and is one of the
\* ranged axes, with the worker's local range.  For rows [0,4) and [4,8) of an
\* (8,8) array and the specification (2, whole): inside with offset 2 on the
\* first worker, not inside on the second.
C9_SliceMapping ==
    mapout # NoMap =>
      LET sl == mapin.slices
          s == mapin.s
          fixedIn(i) == ~IsSlice(sl[i]) /\ s[i].start <= sl[i][1] /\ sl[i][1] < s[i].stop
      IN  /\ mapout.inside <=> \A i \in 1..Len(sl) : IsSlice(sl[i]) \/ fixedIn(i)
          /\ \A i \in 1..Len(sl) : fixedIn(i) => mapout.slices[i] = Fixed(sl[i][1] - s[i].start)
          /\ \A i \in 1..Len(sl) : IsSlice(sl[i]) =>
                /\ mapout.slices[i] = SliceNone
                /\ \E j \in 1..Len(mapout.sp) : mapout.sp[j] = i /\ mapout.sf[j] = s[i]
          /\ Len(mapout.sp) = Cardinality({i \in 1..Len(sl) : IsSlice(sl[i])})
          /\ (sl = <<Fixed(2), SliceNone>> /\ s = <<Rng(0, 4), Rng(0, 8)>>)
                => mapout.inside /\ mapout.slices = <<Fixed(2), SliceNone>>
          /\ (sl = <<Fixed(2), SliceNone>> /\ s = <<Rng(4, 8), Rng(0, 8)>>)
                => ~mapout.inside

\* a fixed index inside local ranges that do not start at 0
C9_Witness ==
    /\ mapin.slices = <<Fixed(6), SliceNone>>
    /\ mapin.s = <<Rng(4, 8), Rng(0, 8)>>
    /\ mapout # NoMap
    /\ mapout.inside
    /\ mapout.slices = <<Fixed(2), SliceNone>>

\* ---------------------------------------------------------------- C10
\* the domain has one entry per axis, and a coordinate array has the extent
\* of its axis
DomainMatches ==
    /\ Len(domain.lens) = ndim(T)
    /\ domain.kind = "array" => \A i \in 1..ndim(T) : domain.lens[i] = T.N[i]

\* C10 as stated: with a domain that does not match the global shape the
\* constructor fails, and no writer is produced whose dimension list does not
\* match the global shape
C10_DimensionMismatch ==
    \A w \in Workers :
        /\ (pc[w] # "new" /\ CheckDType(T) /\ ~DomainMatches) => pc[w] = "failed"
        /\ pc[w] = "ready" => Len(dims[w]) = 1 + ndim(T)

\* ---------------------------------------------------------------- C11
\* the decomposition reports one of the floating kinds 'f', 'd', 'g'
FloatingKind == T.dtype \in {"f", "d", "g"}

\* C11: with a numeric type outside 'f', 'd', 'g' the constructor fails on
\* the type assertion of line 53 on every worker, having issued no call on
\* the file: the file has no dimension and no variable; with a supported type
\* the constructor gets past that assertion, so it creates the time dimension
\* and whatever error it raises is raised later.
C11_UnsupportedDType ==
    \A w \in Workers : pc[w] # "new" =>
        /\ ~FloatingKind =>
              /\ pc[w] = "failed" /\ err[w] = "AssertionError"
              /\ calls[w] = <<>> /\ dims[w] = <<>>
              /\ fdims = <<>> /\ DOMAIN fvars = {}
        /\ FloatingKind =>
              /\ Len(calls[w]) >= 2 /\ calls[w][1] = Call("createDimension", "time", <<>>)
              /\ dims[w] # <<>>
              /\ fdims # <<>> /\ "time" \in DOMAIN fvars

\* every worker has run the constructor with a complex type
C11_Witness ==
    /\ T.dtype = "D"
    /\ \A w \in Workers : pc[w] = "failed"

\* ---------------------------------------------------------------- C12
\* a read has just been made
JustRead == rd.w \in Workers

C12_NotFound ==
    JustRead =>
        /\ rd.dset \notin DOMAIN fvars => rd.err # NoErr /\ rd.buf = EmptyData
        /\ pc[rd.w] = "ready"

C12_ReadFrame ==
    (rd'.w \in Workers) =>
        UNCHANGED <<T, domain, pc, dims, handles, it, fi, ncall, reqs, calls, pend, err, fdims, fvars>>

\* C12: a read of a name that has no variable in the file raises and fills
\* nothing in; a read, raising or not, leaves the time axis, the handle cache,
\* the dimensions and every variable of the file as they were, and the worker
\* ready for its next call.
C12_ReadChangesNothing == []C12_NotFound /\ [][C12_ReadFrame]_vars

\* after a completed write call, a read of a name never written has failed
C12_Witness ==
    /\ JustRead
    /\ rd.dset = "p"
    /\ rd.err # NoErr
    /\ ncall[rd.w] > 0
    /\ "u" \in DOMAIN fvars

\* ---------------------------------------------------------------- C13
\* worker w is in the handler of a field of its write call
InField(w) == pc[w] \in {"enter", "create", "data", "sync"}

\* C13: a write call makes exactly one assignment to the time variable,
\* however many fields it carries; when the handler of a field runs, the time
\* entry of the call is in the file; the data of every field of the call is
\* written at the index of that entry; so every step index at which a field
\* variable holds data is below the length of the time axis, has a time entry,
\* and belongs to a call that carried a field of that variable's name.
C13_OneTimeEntryPerCall ==
    /\ \A w \in Workers :
          /\ Cardinality(CallsOf(w, "write", "time")) = ncall[w]
          /\ InField(w) =>
                /\ it[w] = ncall[w] - 1
                /\ <<it[w]>> \in DOMAIN TimeData
                /\ it[w] < TimeSize(fdims)
          /\ pc[w] = "data" =>
                /\ pend[w].it = it[w]
                /\ \A key \in DOMAIN pend[w].data : key[1] = it[w]
    /\ \A name \in DOMAIN fvars : IsFieldVar(name) =>
          \A key \in DOMAIN fvars[name].data :
              /\ key[1] < TimeSize(fdims)
              /\ <<key[1]>> \in DOMAIN TimeData
              /\ \E f \in Range(reqs[key[1] + 1].fields) : CanonicalName(f) = name

\* a call with two fields and a call with none have both been made
C13_Witness ==
    /\ Quiescent
    /\ Len(reqs) = 2
    /\ Len(reqs[1].fields) = 2
    /\ Len(reqs[2].fields) = 0
    /\ TimeSize(fdims) = 2
    /\ \A f \in Range(reqs[1].fields) :
          CanonicalName(f) \in DOMAIN fvars /\ DOMAIN fvars[CanonicalName(f)].data # {}

\* ---------------------------------------------------------------- C14
\* the names of the field variables worker w has issued a data write to
WrittenBy(w) ==
    {calls[w][n].name : n \in {m \in 1..Len(calls[w]) :
                                  calls[w][m].op = "write" /\ IsFieldVar(calls[w][m].name)}}

\* C14: whenever a worker has issued a data write to a field variable, every
\* worker has issued the createVariable call for that variable, the writing
\* worker's own creation call comes before its first write, and the variable
\* exists in the file.
C14_CreatedBeforeWritten ==
    \A w \in Workers : \A name \in WrittenBy(w) :
        /\ \A v \in Workers : CallsOf(v, "createVariable", name) # {}
        /\ \A n \in CallsOf(w, "write", name) :
              \E c \in CallsOf(w, "createVariable", name) : c < n
        /\ name \in DOMAIN fvars

\* one worker has issued its data write while the other has only created
C14_Witness ==
    \E w, v \in Workers :
        /\ pc[w] = "data" /\ pc[v] = "create"
        /\ ncall[w] = ncall[v] /\ fi[w] = fi[v]
        /\ Field(w).name \in WrittenBy(w)
        /\ Field(w).name \notin WrittenBy(v)

\* ---------------------------------------------------------------- C15
\* C15 as stated: a worker that has come to the sync of a slice step has
\* issued the data write to the slice variable just before it if and only if
\* the slice is inside its local ranges, whatever number of axes is fixed, on
\* a decomposition of two or three axes
C15_InsideWrites ==
    \A w \in Workers :
        (ndim(T) \in {2, 3} /\ SliceField(w) /\ pc[w] = "sync") =>
            (PlanOf(w).inside
                <=> calls[w][Len(calls[w]) - 1] = Call("write", PlanOf(w).fname, <<>>))

\* ---------------------------------------------------------------- C16
\* the names of the axes a slice specification leaves ranged, in order
RECURSIVE RangedAxes(_, _)
RangedAxes(sl, i) ==
    IF i > Len(sl) THEN <<>>
    ELSE (IF IsSlice(sl[i]) THEN <<XYZ[i]>> ELSE <<>>) \o RangedAxes(sl, i + 1)

\* the axis list the variable of a requested field is to have
AxesOf(f) ==
    IF f.full THEN <<"time">> \o SubSeq(XYZ, 1, ndim(T))
    ELSE <<"time">> \o RangedAxes(f.sl, 1)

Whole(sl) == {i \in 1..Len(sl) : IsSlice(sl[i])}

\* C16 (for a writer constructed with a domain of one entry per axis, so that
\* self.dims lists every axis): the createVariable call of a full-field step
\* names the axes (time, then every spatial axis in order), and the data write of a full field on a
\* 2-D or 3-D decomposition addresses a variable of 1 + ndim axes with 1 + ndim
\* selectors; the createVariable call of a slice step names (time, then the
\* axes the specification leaves ranged, in order), 1 + the number of
\* whole-axis entries, and its data write addresses the variable with as many
\* selectors; every field variable in the file has the axis list of a
\* requested field of its name.
C16_AxisLists ==
    /\ \A w \in Workers : (InField(w) /\ pc[w] = "create") =>
          /\ LastCall(w) = Call("createVariable", CanonicalName(Field(w)), AxesOf(Field(w)))
          /\ Field(w).full => Len(LastCall(w).dims) = 1 + ndim(T)
          /\ ~Field(w).full => Len(LastCall(w).dims) = 1 + Cardinality(Whole(Field(w).sl))
    /\ \A w \in Workers : (InField(w) /\ pc[w] = "data") =>
          LET name == CanonicalName(Field(w))
              n == IF Field(w).full THEN 1 + ndim(T)
                   ELSE 1 + Cardinality(Whole(Field(w).sl))
          IN  /\ Field(w).full => ndim(T) \in {2, 3}
              /\ Len(handles[w][name]) = n
              /\ Len(fvars[name].dims) = n
              /\ DOMAIN pend[w].data # {}
              /\ \A key \in DOMAIN pend[w].data : Len(key) = n
    /\ \A name \in DOMAIN fvars : IsFieldVar(name) =>
          \E f \in UNION {Range(reqs[k].fields) : k \in 1..Len(reqs)} :
              CanonicalName(f) = name /\ fvars[name].dims = AxesOf(f)

\* on a 3-D decomposition a full field and a slice with one axis fixed have
\* both been written
C16_Witness ==
    /\ ndim(T) = 3
    /\ Quiescent
    /\ "u" \in DOMAIN fvars
    /\ fvars["u"].dims = <<"time", "x", "y", "z">>
    /\ DOMAIN fvars["u"].data # {}
    /\ \E f \in SlicedRequested :
          /\ FiledUnder(f) \in DOMAIN fvars
          /\ Len(fvars[FiledUnder(f)].dims) = 3
          /\ DOMAIN fvars[FiledUnder(f)].data # {}

\* ---------------------------------------------------------------- C17
\* the place in a full-field variable, at step i, of the elements worker v owns
Region(v, i) == {<<i>> \o g : g \in Box(local_slice(T, v))}

\* the element of worker v's block of field j of call k that belongs at key
BlockAt(v, k, j, key) ==
    LET sv == local_slice(T, v)
    IN  LocalBlock(T, v, k, j)[[a \in 1..Len(sv) |-> key[a + 1] - sv[a].start]]

\* worker w issues the data write of a full field in this step
FullWriteStep(w) ==
    /\ InField(w) /\ Field(w).full
    /\ pc[w] # "data" /\ pc'[w] = "data"

C17_Frame ==
    \A w \in Workers : FullWriteStep(w) =>
        LET name == Field(w).name
            old == fvars[name].data
            new == fvars'[name].data
        IN  /\ fdims' = fdims
            /\ DOMAIN fvars' = DOMAIN fvars
            /\ \A other \in DOMAIN fvars \ {name} : fvars'[other] = fvars[other]
            /\ fvars'[name].dims = fvars[name].dims
            /\ \A key \in DOMAIN old : key[1] # it[w] => key \in DOMAIN new /\ new[key] = old[key]
            /\ \A key \in DOMAIN new :
                  (key \notin DOMAIN old \/ new[key] # old[key]) =>
                      \E v \in Workers :
                          /\ key \in Region(v, it[w])
                          /\ new[key] = BlockAt(v, ncall[w], fi[w], key)

C17_Placed ==
    /\ \A w, v \in Workers : w # v => Region(w, 0) \cap Region(v, 0) = {}
    /\ \A w \in Workers : (InField(w) /\ Field(w).full /\ pc[w] = "sync") =>
          \A v \in Workers : \A key \in Region(v, it[w]) :
              /\ key \in DOMAIN fvars[Field(w).name].data
              /\ fvars[Field(w).name].data[key] = BlockAt(v, ncall[w], fi[w], key)

\* C17: the data write of a full field changes the named variable only at
\* the step index of the call and only in the regions of the workers' local
\* ranges, each getting the owning worker's block; the other steps of the
\* variable, every other variable (the coordinates among them) and the
\* dimensions stay as they were.  Once the workers have written, the variable
\* holds at that step every worker's block at the worker's local ranges, and
\* the regions of two workers do not overlap.
C17_FullWriteFrame == []C17_Placed /\ [][C17_Frame]_vars

\* the second step of a full field has been written beside the first
C17_Witness ==
    /\ \E w \in Workers : InField(w) /\ Field(w).full /\ pc[w] = "sync" /\ it[w] = 1
                            /\ Field(w).name = "u"
    /\ \E key \in DOMAIN fvars["u"].data : key[1] = 0
    /\ ndim(T) = 2

\* ---------------------------------------------------------------- C18
\* C18: the index it of a worker's k-th write call is k - 1 on every worker,
\* so two workers in the same call have the same it, and the time assignment
\* of the call carries that index; the time axis does not get its k-th entry
\* before every worker has begun its k-th call (and so has read the length),
\* whatever the interleaving.
C18_SameStepIndex ==
    /\ \A w \in Workers : InCall(w) => it[w] = ncall[w] - 1
    /\ \A w, v \in Workers :
          (InCall(w) /\ InCall(v) /\ ncall[w] = ncall[v]) => it[w] = it[v]
    /\ \A w \in Workers : pc[w] = "time" =>
          pend[w].it = it[w] /\ DOMAIN pend[w].data = {<<it[w]>>}
    /\ \A v \in Workers : TimeSize(fdims) <= ncall[v]

\* one worker has issued the time assignment of its second call, the other
\* has not begun the call
C18_Witness ==
    \E w, v \in Workers :
        /\ pc[w] = "time" /\ ncall[w] = 2
        /\ pc[v] = "ready" /\ ncall[v] = 1
        /\ TimeSize(fdims) = 1

\* ---------------------------------------------------------------- C19
\* C19 as stated: a handle that a handler finds in the cache under the name
\* of its field has the axis list the handler would have created for the
\* field
C19_CachedHandleFits ==
    \A w \in Workers :
        (InField(w) /\ pc[w] = "enter" /\ CanonicalName(Field(w)) \in DOMAIN handles[w]) =>
            handles[w][CanonicalName(Field(w))] = AxesOf(Field(w))

\* ---------------------------------------------------------------- C20
\* the collective calls worker w has issued since the time assignment of its
\* current write call
SinceTime(w) ==
    LET t == CHOOSE n \in CallsOf(w, "write", "time") :
                 \A m \in CallsOf(w, "write", "time") : m <= n
    IN  SubSeq(calls[w], t + 1, Len(calls[w]))

IsSync(c) == c = SyncCall

\* worker w has left a write call by the error of a full field
FullFieldFailed(w) ==
    /\ pc[w] = "ready" /\ ncall[w] > 0
    /\ fi[w] >= 1 /\ Field(w).full
    /\ err[w] = "NotImplementedError"

\* C20: on a decomposition of a dimensionality other than 2 and 3 the handler
\* of a full field never issues a data write and leaves with
\* NotImplementedError; when it has left, the time axis has the entry of the
\* call, the variable of the field exists without data and its handle is in
\* the cache, and no sync has been issued for the field.
C20_NotImplementedLeavesState ==
    ndim(T) \notin {2, 3} =>
      \A w \in Workers :
        /\ (InField(w) /\ Field(w).full) => pc[w] \in {"enter", "create"}
        /\ (pc[w] = "ready" /\ ncall[w] > 0 /\ fi[w] >= 1 /\ Field(w).full) => FullFieldFailed(w)
        /\ FullFieldFailed(w) =>
              LET name == Field(w).name
              IN  /\ TimeSize(fdims) >= ncall[w]
                  /\ <<ncall[w] - 1>> \in DOMAIN TimeData
                  /\ name \in DOMAIN handles[w]
                  /\ name \in DOMAIN fvars
                  /\ DOMAIN fvars[name].data = {}
                  /\ Cardinality(CallsOf(w, "createVariable", name)) = 1
                  /\ Len(SelectSeq(SinceTime(w), IsSync)) = fi[w] - 1

\* a worker has left its first write call by the error, right after creating
\* the variable
C20_Witness ==
    \E w \in Workers :
        /\ ndim(T) = 1
        /\ FullFieldFailed(w)
        /\ ncall[w] = 1
        /\ TimeSize(fdims) = 1
        /\ LastCall(w) = Call("createVariable", "u", <<"time", "x">>)

====
